---- MODULE Spec2Model ----
(***************************************************************************)
(* Model of attckforge.py: the MITRE ATT&CK matrix builder                 *)
(* (build_technique_dict, build_matrix_for_platform), the sheet renderer   *)
(* (create_excel_from_matrix) and the interactive driver (main,            *)
(* interactive_menu, fetch_mitre_data, process_selection).                 *)
(*                                                                         *)
(* Python dicts are insertion-ordered: a dict is a sequence of <<key,      *)
(* value>> pairs with unique keys.  Technique identifiers are sequences of *)
(* one-character strings so that "'.' in id" and "id.split('.')[0]" are    *)
(* computed, not assumed.  Cell values are sequences of strings; an empty  *)
(* cell is <<>>.                                                           *)
(***************************************************************************)
EXTENDS Integers, Sequences, FiniteSets, TLC

VARIABLES pc, passes, attack_data, http, matrix_type, data, platforms,
          platform_indices, idx, created_files, log, platform, matrix,
          tactics, ws, result, save_calls

vars == <<pc, passes, attack_data, http, matrix_type, data, platforms,
          platform_indices, idx, created_files, log, platform, matrix,
          tactics, ws, result, save_calls>>

(* ------------------------------ bounds --------------------------------- *)
MaxTech == 3        \* attack-pattern records in a dataset given to the builder
MaxEntries == 2     \* technique-entries per bucket given to the renderer
MaxSubs == 2        \* sub-technique entries per technique-entry (renderer)
MaxSel == 3         \* platform indices typed in one multi-select answer
MaxPasses == 2      \* times option 1 of the main menu is taken

(* --------------------------- python values ----------------------------- *)
None == <<"None">>

RECURSIVE SeqsUpTo(_, _)
SeqsUpTo(S, n) ==
  IF n = 0 THEN {<<>>}
  ELSE LET shorter == SeqsUpTo(S, n - 1)
       IN  shorter \cup {Append(s, x) : s \in {t \in shorter : Len(t) = n - 1}, x \in S}

Range(s) == {s[i] : i \in DOMAIN s}

\* the element of a one-element set; "Only({f(x) : x \in {e}})" binds the
\* value of e to the local x, as an assignment to a local variable does
Only(S) == CHOOSE x \in S : TRUE

\* dict: key in d
DictHas(d, k) == \E i \in DOMAIN d : d[i][1] = k

\* dict: d[k]
DictGet(d, k) == d[CHOOSE i \in DOMAIN d : d[i][1] = k][2]

\* dict: d[k] = v  (an existing key keeps its position)
DictSet(d, k, v) ==
  IF DictHas(d, k)
  THEN [i \in DOMAIN d |-> IF d[i][1] = k THEN <<k, v>> ELSE d[i]]
  ELSE Append(d, <<k, v>>)

DictKeys(d) == [i \in DOMAIN d |-> d[i][1]]

(* ------------------------------ dataset -------------------------------- *)
PlatformOrder == <<"Linux", "Windows">>     \* ascending string order

Dot == "."

\* '.' in technique_id
HasDot(id) == \E i \in DOMAIN id : id[i] = Dot

\* technique_id.split('.')[0]
SplitHead(id) ==
  IF HasDot(id)
  THEN SubSeq(id, 1, (CHOOSE i \in DOMAIN id :
                        id[i] = Dot /\ \A j \in 1..(i - 1) : id[j] # Dot) - 1)
  ELSE id

\* an attack-pattern object; ext_id = <<>> stands for a missing
\* external_references list or an empty external_id
AP(id, name, url, plats, phases) ==
  [type |-> "attack-pattern", name |-> name, shortname |-> "", ext_id |-> id,
   url |-> url, platforms |-> plats, phases |-> phases]

\* an x-mitre-tactic object
TacticObj(shortname, name, id, url) ==
  [type |-> "x-mitre-tactic", name |-> name, shortname |-> shortname,
   ext_id |-> id, url |-> url, platforms |-> {}, phases |-> <<>>]

\* any other object type of the bundle
OtherObj ==
  [type |-> "relationship", name |-> "rel", shortname |-> "", ext_id |-> <<>>,
   url |-> "", platforms |-> {}, phases |-> <<>>]

(* --------------------------- extract_platforms ------------------------- *)
PlatformSet(d) ==
  UNION {d.objects[i].platforms :
           i \in {j \in DOMAIN d.objects : d.objects[j].type = "attack-pattern"}}

RECURSIVE SortedFrom(_, _)
SortedFrom(S, order) ==
  IF order = <<>> THEN <<>>
  ELSE IF Head(order) \in S THEN <<Head(order)>> \o SortedFrom(S, Tail(order))
       ELSE SortedFrom(S, Tail(order))

extract_platforms(d) == SortedFrom(PlatformSet(d), PlatformOrder)

(* ---------------------------- extract_tactics -------------------------- *)
RECURSIVE TacticsLoop(_, _)
TacticsLoop(objs, n) ==
  IF n = 0 THEN <<>>
  ELSE LET prev == TacticsLoop(objs, n - 1)
           obj == objs[n]
       IN  IF obj.type = "x-mitre-tactic" /\ obj.shortname # ""
           THEN DictSet(prev, obj.shortname,
                        [name |-> obj.name, id |-> obj.ext_id, url |-> obj.url])
           ELSE prev

extract_tactics(d) == TacticsLoop(d.objects, Len(d.objects))

(* -------------------------- build_technique_dict ----------------------- *)
TechniqueRecord(obj) ==
  [id |-> obj.ext_id, name |-> obj.name, platforms |-> obj.platforms,
   tactics |-> obj.phases, url |-> obj.url,
   is_subtechnique |-> HasDot(obj.ext_id),
   parent_technique |-> IF HasDot(obj.ext_id) THEN SplitHead(obj.ext_id) ELSE None,
   subtechniques |-> <<>>]

RECURSIVE LoadLoop(_, _)
LoadLoop(objs, n) ==
  IF n = 0 THEN <<>>
  ELSE LET prev == LoadLoop(objs, n - 1)
           obj == objs[n]
       IN  IF obj.type # "attack-pattern" THEN prev
           ELSE IF obj.ext_id = <<>> THEN prev
           ELSE DictSet(prev, obj.ext_id, TechniqueRecord(obj))

\* the condition under which a technique is linked to its parent
LinkCond(tech, techniques) ==
  tech.is_subtechnique /\ DictHas(techniques, tech.parent_technique)

\* one iteration of the linking loop over the item <<tech_id, tech>>
LinkStep(techniques, item) ==
  IF LinkCond(item[2], techniques)
  THEN DictSet(techniques, item[2].parent_technique,
               [DictGet(techniques, item[2].parent_technique)
                  EXCEPT !.subtechniques = Append(@, item[1])])
  ELSE techniques

\* items: the snapshot list(techniques.items()); only subtechniques lists change
RECURSIVE LinkLoop(_, _)
LinkLoop(items, n) ==
  IF n = 0 THEN items
  ELSE Only({LinkStep(prev, items[n]) : prev \in {LinkLoop(items, n - 1)}})

build_technique_dict(d) ==
  Only({LinkLoop(techniques, Len(techniques)) :
          techniques \in {LoadLoop(d.objects, Len(d.objects))}})

(* ------------------------ build_matrix_for_platform -------------------- *)
\* mutant: sub-techniques are not filtered by platform
SubAvailable_Always(sub, p) == TRUE

\* the platform test applied to a sub-technique
SubAvailable(sub, p) == p \in sub.platforms

RECURSIVE valid_subtechniques(_, _, _)
valid_subtechniques(subs, techniques, p) ==
  IF subs = <<>> THEN <<>>
  ELSE LET sub == DictGet(techniques, Head(subs))
           rest == valid_subtechniques(Tail(subs), techniques, p)
       IN  IF SubAvailable(sub, p)
           THEN <<[name |-> sub.name, reference |-> sub.url]>> \o rest
           ELSE rest

Entry(tech, techniques, p) ==
  [technique |-> tech.name, reference |-> tech.url,
   subtechniques |-> valid_subtechniques(tech.subtechniques, techniques, p)]

\* mutant: only the first tactic of the dataset is accepted
PhaseKept_FirstOnly(name, tacs) == tacs # <<>> /\ name = tacs[1][1]

\* a phase is kept when its name is non-empty and a known tactic short-name
PhaseKept(name, tacs) == name # "" /\ DictHas(tacs, name)

\* mutant: a new bucket is put in front of the existing ones
BucketAppend_Front(m, k, e) ==
  IF DictHas(m, k) THEN DictSet(m, k, Append(DictGet(m, k), e))
  ELSE <<<<k, <<e>>>>>> \o m

\* matrix[tactic_shortname].append(entry), creating the bucket first
BucketAppend(m, k, e) ==
  IF DictHas(m, k) THEN DictSet(m, k, Append(DictGet(m, k), e))
  ELSE Append(m, <<k, <<e>>>>)

RECURSIVE PhaseLoop(_, _, _, _, _, _)
PhaseLoop(m, tech, n, techniques, tacs, p) ==
  IF n = 0 THEN m
  ELSE LET prev == PhaseLoop(m, tech, n - 1, techniques, tacs, p)
           name == tech.tactics[n]
       IN  IF PhaseKept(name, tacs)
           THEN BucketAppend(prev, name, Entry(tech, techniques, p))
           ELSE prev

\* mutant: the platform test on the top-level technique is missing
TechQualifies_NoPlatform(tech, p) == ~tech.is_subtechnique

\* mutant: sub-techniques are not skipped
TechQualifies_SubsToo(tech, p) == p \in tech.platforms

\* the two "continue" tests at the top of the technique loop
TechQualifies(tech, p) == ~tech.is_subtechnique /\ p \in tech.platforms

RECURSIVE MatrixLoop(_, _, _, _)
MatrixLoop(techniques, n, tacs, p) ==
  IF n = 0 THEN <<>>
  ELSE LET prev == MatrixLoop(techniques, n - 1, tacs, p)
           tech == techniques[n][2]
       IN  IF TechQualifies(tech, p)
           THEN PhaseLoop(prev, tech, Len(tech.tactics), techniques, tacs, p)
           ELSE prev

build_matrix_for_platform(d, p) ==
  Only({[matrix |-> MatrixLoop(techniques, Len(techniques), tacs, p),
         tactics |-> tacs] :
          tacs \in {extract_tactics(d)}, techniques \in {build_technique_dict(d)}})

(* ------------------------ create_excel_from_matrix --------------------- *)
output_dir == "mitre_matrices"
Today == "YYYYMMDD"                 \* datetime.now().strftime('%Y%m%d')

MatrixTypes == <<"Enterprise", "Mobile", "ICS">>

\* str.lower() of the menu labels
Lower(s) == CASE s = "Enterprise" -> "enterprise"
              [] s = "Mobile" -> "mobile"
              [] s = "ICS" -> "ics"
              [] OTHER -> s

\* str.title() of the matrix-type keys
TitleCase(s) == CASE s = "enterprise" -> "Enterprise"
                  [] s = "mobile" -> "Mobile"
                  [] s = "ics" -> "Ics"
                  [] OTHER -> s

FileName(p, mt) == <<output_dir, "MITRE_ATT&CK", mt, p, Today, "xlsx">>

Blank == <<>>
Cell(s) == <<s>>

Row(c1, c2, c3, c4, font, fill, border, merged) ==
  [cells |-> <<c1, c2, c3, c4>>, font |-> font, fill |-> fill,
   border |-> border, merged |-> merged]

BlankRow == Row(Blank, Blank, Blank, Blank, "plain", "none", FALSE, FALSE)

TitleRow(p, mt) ==
  Row(<<"MITRE ATT&CK", TitleCase(mt), "Matrix for", p>>, Blank, Blank, Blank,
      "bold14", "none", FALSE, TRUE)

TacticHeaderRow(name) ==
  Row(Cell(name), Blank, Blank, Blank, "bold", "tactic_fill", FALSE, TRUE)

ColumnHeaderRow ==
  Row(Cell("Technique"), Cell("Reference"), Cell("Subtechnique"),
      Cell("Subtechnique Reference"), "bold", "header_fill", TRUE, FALSE)

DataRow(c1, c2, c3, c4) == Row(c1, c2, c3, c4, "plain", "none", TRUE, FALSE)

NoTechniquesRow ==
  Row(Cell("No techniques found for this platform in the framework."),
      Blank, Blank, Blank, "plain", "none", FALSE, FALSE)

\* rows of the sub-techniques after the first one
RECURSIVE RestRows(_)
RestRows(subs) ==
  IF subs = <<>> THEN <<>>
  ELSE <<DataRow(Blank, Blank, Cell(Head(subs).name), Cell(Head(subs).reference))>>
       \o RestRows(Tail(subs))

TechniqueRows(technique) ==
  IF technique.subtechniques = <<>>
  THEN <<DataRow(Cell(technique.technique), Cell(technique.reference), Blank, Blank)>>
  ELSE <<DataRow(Cell(technique.technique), Cell(technique.reference),
                 Cell(technique.subtechniques[1].name),
                 Cell(technique.subtechniques[1].reference))>>
       \o RestRows(Tail(technique.subtechniques))

RECURSIVE BucketRows(_)
BucketRows(techniques) ==
  IF techniques = <<>> THEN <<>>
  ELSE TechniqueRows(Head(techniques)) \o BucketRows(Tail(techniques))

\* mutant: a single row is skipped after a tactic's block
TacticGap_One == <<BlankRow>>

\* "row += 2" after a tactic's block: the rows skipped stay blank
TacticGap == <<BlankRow, BlankRow>>

\* mutant: empty buckets are rendered too
BucketSkipped_Never(techniques) == FALSE

\* "if not techniques: continue"
BucketSkipped(techniques) == techniques = <<>>

TacticSection(name, techniques) ==
  <<TacticHeaderRow(name), ColumnHeaderRow>> \o BucketRows(techniques) \o TacticGap

\* the loop over matrix.items(): rows written so far, the
\* tactics_processed flag, and whether tactics[tactic_shortname] raised
RenderStep(prev, key, techniques, tacs) ==
  IF prev.raised \/ BucketSkipped(techniques) THEN prev
  ELSE IF ~DictHas(tacs, key)
  THEN [prev EXCEPT !.tactics_processed = TRUE, !.raised = TRUE]
  ELSE [rows |-> prev.rows \o TacticSection(DictGet(tacs, key).name, techniques),
        tactics_processed |-> TRUE, raised |-> FALSE]

RECURSIVE RenderLoop(_, _, _, _)
RenderLoop(start, m, n, tacs) ==
  IF n = 0 THEN [rows |-> start, tactics_processed |-> FALSE, raised |-> FALSE]
  ELSE Only({RenderStep(prev, m[n][1], m[n][2], tacs) :
               prev \in {RenderLoop(start, m, n - 1, tacs)}})

\* mutant: the workbook is saved whatever was processed
NoContent_Never(loop) == FALSE

\* "if not tactics_processed"
NoContent(loop) == ~loop.tactics_processed

\* save_ok: whether wb.save succeeds.  ws lists rows 1..row-1; the rows
\* skipped after the last tactic hold no cell.  save_called: wb.save was
\* reached.  result: the returned file name, None, or "KeyError".
create_excel_from_matrix(m, tacs, p, mt, save_ok) ==
  Only({ IF loop.raised
         THEN [ws |-> loop.rows, save_called |-> FALSE, result |-> <<"KeyError">>]
         ELSE IF NoContent(loop)
         THEN [ws |-> Append(loop.rows, NoTechniquesRow), save_called |-> FALSE,
               result |-> None]
         ELSE [ws |-> loop.rows, save_called |-> TRUE,
               result |-> IF save_ok THEN FileName(p, mt) ELSE None] :
           loop \in {RenderLoop(<<TitleRow(p, mt), BlankRow>>, m, Len(m), tacs)} })

(* ------------------ inputs of the builder specification ---------------- *)
idA == <<"a">>
idB == <<"b">>
idAx == <<"a", ".", "x">>
idAy == <<"a", ".", "y">>
idAxy == <<"a", ".", "x", ".", "y">>
idCx == <<"c", ".", "x">>

Lin == {"Linux"}
Win == {"Windows"}
Both == {"Linux", "Windows"}

\* attack-pattern records a dataset is drawn from: top-level techniques with
\* one, several, repeated, unknown, empty and no phases; sub-techniques on
\* either platform; a two-dot identifier; an orphan sub-technique; a
\* record without identifier.  Names are unique per record.
TechUniverse ==
  { AP(idA, "A1", "u/A1", Both, <<"ta", "tb">>),
    AP(idA, "A2", "u/A2", Lin, <<>>),
    AP(idB, "B1", "u/B1", Lin, <<"tb", "tu", "ta">>),
    AP(idB, "B2", "u/B2", Win, <<"tu", "", "ta">>),
    AP(idB, "B4", "u/B4", Lin, <<"ta", "ta">>),
    AP(idAx, "AX1", "u/AX1", Lin, <<"ta">>),
    AP(idAx, "AX2", "u/AX2", Win, <<>>),
    AP(idAy, "AY2", "u/AY2", Win, <<"ta">>),
    AP(idAxy, "AXY", "u/AXY", Lin, <<>>),
    AP(idCx, "CX1", "u/CX1", Both, <<"ta">>),
    AP(<<>>, "N1", "u/N1", Both, <<"ta">>) }

TA == TacticObj("ta", "Tactic A", <<"TA01">>, "u/TA01")
TB == TacticObj("tb", "Tactic B", <<"TA02">>, "u/TA02")
TA2 == TacticObj("ta", "Tactic A bis", <<"TA03">>, "u/TA03")
TNone == TacticObj("", "Unnamed", <<"TA09">>, "u/TA09")

\* the non-technique objects of a dataset, in bundle order
TacticPrefixes ==
  { <<TA, TB>>, <<TB, OtherObj, TA, TA2>>, <<TNone, TA>> }

BuildDatasets ==
  { [objects |-> pre \o techs] :
      pre \in TacticPrefixes, techs \in SeqsUpTo(TechUniverse, MaxTech) }

(* ----------------- the builder as a specification ---------------------- *)
NoData == [objects |-> <<>>]

InitBuild ==
  /\ pc = "build"
  /\ data \in BuildDatasets
  /\ platform \in Range(PlatformOrder)
  /\ matrix_type = "enterprise"
  /\ passes = 0 /\ attack_data = <<>> /\ http = <<>>
  /\ platforms = <<>> /\ platform_indices = <<>> /\ idx = 0
  /\ created_files = <<>> /\ log = <<>>
  /\ matrix = <<>> /\ tactics = <<>> /\ ws = <<>>
  /\ result = None /\ save_calls = <<>>

BuildMatrix ==
  /\ pc = "build"
  /\ \E built \in {build_matrix_for_platform(data, platform)} :
       matrix' = built.matrix /\ tactics' = built.tactics
  /\ pc' = "built"
  /\ UNCHANGED <<passes, attack_data, http, matrix_type, data, platforms,
                 platform_indices, idx, created_files, log, platform, ws,
                 result, save_calls>>

NextBuild == BuildMatrix

SpecBuild == InitBuild /\ [][NextBuild]_vars

(* ------------- vocabulary of the builder's properties ------------------ *)
\* keeps the first occurrence of every element
RECURSIVE FirstOccurrences(_)
FirstOccurrences(s) ==
  IF s = <<>> THEN <<>>
  ELSE Only({ IF s[Len(s)] \in Range(init) THEN init ELSE Append(init, s[Len(s)]) :
                init \in {FirstOccurrences(SubSeq(s, 1, Len(s) - 1))} })

IsKeyed(o) == o.type = "attack-pattern" /\ o.ext_id # <<>>

\* identifiers of the technique collection, in insertion order
CollIds ==
  Only({FirstOccurrences([i \in DOMAIN keyed |-> keyed[i].ext_id]) :
          keyed \in {SelectSeq(data.objects, IsKeyed)}})

\* the record the collection holds for an identifier: the last one loaded
CollRec(id) ==
  Only({ keyed[CHOOSE i \in DOMAIN keyed :
                 /\ keyed[i].ext_id = id
                 /\ \A j \in DOMAIN keyed : keyed[j].ext_id = id => j <= i] :
           keyed \in {SelectSeq(data.objects, IsKeyed)} })

\* the technique collection, one record per identifier
Coll == Only({[i \in DOMAIN ids |-> CollRec(ids[i])] : ids \in {CollIds}})

TopLevel(o) == \A i \in DOMAIN o.ext_id : o.ext_id[i] # "."

\* o's identifier is parent, a '.', and a suffix
ChildOf(o, parent) ==
  /\ Len(o.ext_id) > Len(parent)
  /\ SubSeq(o.ext_id, 1, Len(parent)) = parent
  /\ o.ext_id[Len(parent) + 1] = "."

KnownTactics ==
  {o.shortname : o \in {x \in Range(data.objects) :
                          x.type = "x-mitre-tactic" /\ x.shortname # ""}}

\* all technique-entries of the matrix
AllEntries == UNION {Range(matrix[i][2]) : i \in DOMAIN matrix}

Bucket(t) == IF DictHas(matrix, t) THEN DictGet(matrix, t) ELSE <<>>

Count(s, Test(_)) == Cardinality({i \in DOMAIN s : Test(s[i])})

\* C1: every technique-entry of the matrix comes from a technique record
\* whose platform list contains the platform, and every sub-technique entry
\* nested under it comes from a sub-technique record whose own platform list
\* contains the platform.
C1_PlatformFilter ==
  pc = "built" =>
    \E recs \in {Range(Coll)} :
      \A e \in AllEntries :
        /\ \E o \in recs :
             o.name = e.technique /\ o.url = e.reference /\ platform \in o.platforms
        /\ \A s \in Range(e.subtechniques) :
             \E o \in recs :
               /\ o.name = s.name /\ o.url = s.reference
               /\ ~TopLevel(o) /\ platform \in o.platforms

C1_Witness ==
  /\ pc = "built"
  /\ \E e \in AllEntries : e.subtechniques # <<>>
  /\ \E o \in Range(Coll) : platform \notin o.platforms

\* the children of parent in coll available on the platform, in collection order
ExpectedSubs(coll, parent) ==
  Only({[i \in DOMAIN kids |-> [name |-> kids[i].name, reference |-> kids[i].url]] :
          kids \in {SelectSeq(coll, LAMBDA o : ChildOf(o, parent) /\ platform \in o.platforms)}})

\* C2: the sub-technique list of a top-level technique's entry is exactly the
\* sequence of techniques of the collection whose parent id is that
\* technique's id and whose platform list contains the platform, in
\* collection order.
C2_SubtechniqueList ==
  pc = "built" =>
    \E coll \in {Coll} :
      \A e \in AllEntries :
        \A o \in Range(coll) :
          o.name = e.technique => e.subtechniques = ExpectedSubs(coll, o.ext_id)

C2_Witness ==
  /\ pc = "built"
  /\ \E recs \in {Range(Coll)} : \E e \in AllEntries : \E o \in recs :
       /\ o.name = e.technique
       /\ Len(e.subtechniques) = 1
       /\ Cardinality({k \in recs : ChildOf(k, o.ext_id)}) >= 2

\* C3: a top-level technique available on the platform has one entry in a
\* tactic's bucket per declared phase naming that tactic, for every known
\* tactic; nothing is filed under a name that is no known tactic, and a
\* technique without declared tactics is in no bucket.
C3_EntryPerPhase ==
  pc = "built" =>
    \E recs \in {Range(Coll)}, known \in {KnownTactics} :
      /\ \A i \in DOMAIN matrix : matrix[i][1] \in known
      /\ \A o \in recs :
           TopLevel(o) /\ platform \in o.platforms =>
             /\ \A t \in known :
                  Count(Bucket(t), LAMBDA e : e.technique = o.name)
                    = Count(o.phases, LAMBDA ph : ph = t)
             /\ o.phases = <<>> => \A e \in AllEntries : e.technique # o.name

C3_Witness ==
  /\ pc = "built"
  /\ \E recs \in {Range(Coll)}, known \in {KnownTactics} :
       /\ \E o \in recs :
            /\ TopLevel(o) /\ platform \in o.platforms
            /\ \E t, u \in known :
                 /\ t # u
                 /\ \E e \in Range(Bucket(t)) : e.technique = o.name
                 /\ \E e \in Range(Bucket(u)) : e.technique = o.name
       /\ \E o \in recs :
            /\ TopLevel(o) /\ platform \in o.platforms
            /\ \E i \in DOMAIN o.phases : o.phases[i] \notin known
       /\ \E o \in recs :
            TopLevel(o) /\ platform \in o.platforms /\ o.phases = <<>>

\* <<technique name, tactic>> for every declared phase of o that names a
\* known tactic, in declared order, if o is a top-level technique available
\* on the platform
EncountersOf(o, known) ==
  IF TopLevel(o) /\ platform \in o.platforms
  THEN Only({[i \in DOMAIN kept |-> <<o.name, kept[i]>>] :
               kept \in {SelectSeq(o.phases, LAMBDA ph : ph \in known)}})
  ELSE <<>>

\* the encounters of the first n techniques of coll, in collection order
RECURSIVE Encounters(_, _, _)
Encounters(coll, n, known) ==
  IF n = 0 THEN <<>>
  ELSE Encounters(coll, n - 1, known) \o EncountersOf(coll[n], known)

\* C9: the tactics of the matrix are in first-encounter order, and within a
\* bucket the technique-entries are in technique-collection order.
C9_EncounterOrder ==
  pc = "built" =>
    \E coll \in {Coll} : \E enc \in {Encounters(coll, Len(coll), KnownTactics)} :
      /\ DictKeys(matrix) = FirstOccurrences([i \in DOMAIN enc |-> enc[i][2]])
      /\ \A k \in DOMAIN matrix :
           \E mine \in {SelectSeq(enc, LAMBDA x : x[2] = matrix[k][1])} :
             [i \in DOMAIN matrix[k][2] |-> matrix[k][2][i].technique]
               = [i \in DOMAIN mine |-> mine[i][1]]

\* the matrix leads with "tb" although the dataset lists "ta" first
C9_Witness ==
  /\ pc = "built"
  /\ DictKeys(matrix) = <<"tb", "ta">>
  /\ DictKeys(tactics) = <<"ta", "tb">>
  /\ \E k \in DOMAIN matrix : Len(matrix[k][2]) >= 2

\* C10: every key of the matrix is a key of the tactics mapping, every
\* bucket is non-empty, every entry comes from a top-level technique, and a
\* sub-technique whose parent is missing or not available on the platform
\* appears nowhere in the matrix.
C10_MatrixWellFormed ==
  pc = "built" =>
    \E recs \in {Range(Coll)}, entries \in {AllEntries} :
      /\ \A i \in DOMAIN matrix :
           DictHas(tactics, matrix[i][1]) /\ matrix[i][2] # <<>>
      /\ \A e \in entries :
           \E o \in recs : TopLevel(o) /\ o.name = e.technique
      /\ \A o \in recs :
           ~TopLevel(o) =>
             /\ \A e \in entries : e.technique # o.name
             /\ (~\E q \in recs :
                    TopLevel(q) /\ ChildOf(o, q.ext_id) /\ platform \in q.platforms)
                  => \A e \in entries :
                       \A s \in Range(e.subtechniques) : s.name # o.name

C10_Witness ==
  /\ pc = "built"
  /\ matrix # <<>>
  /\ \E recs \in {Range(Coll)} : \E o \in recs :
       /\ ~TopLevel(o) /\ platform \in o.platforms /\ o.phases # <<>>
       /\ \/ ~\E q \in recs : ChildOf(o, q.ext_id)
          \/ \E q \in recs :
               TopLevel(q) /\ ChildOf(o, q.ext_id) /\ platform \notin q.platforms

(* ------------------ inputs of the renderer specification --------------- *)
SubNames == <<"S1", "S2", "S3", "S4">>

\* sub-technique lists <<>>, <<S1>>, <<S1, S2>>, ...
SubLists ==
  { [i \in 1..n |-> [name |-> SubNames[i], reference |-> "u/sub"]] : n \in 0..MaxSubs }

\* "T1" with every sub-technique list, "T2" without sub-techniques
RenderEntries ==
  { [technique |-> "T1", reference |-> "u/T1", subtechniques |-> subs] : subs \in SubLists }
  \cup { [technique |-> "T2", reference |-> "u/T2", subtechniques |-> <<>>] }

RenderBuckets == SeqsUpTo(RenderEntries, MaxEntries)

\* matrices over the keys "ta" and "tb" in either order, buckets possibly empty
RenderMatrices ==
  {<<>>}
  \cup { <<<<k, b>>>> : k \in {"ta", "tb"}, b \in RenderBuckets }
  \cup { <<<<k[1], b1>>, <<k[2], b2>>>> :
           k \in {<<"ta", "tb">>, <<"tb", "ta">>}, b1 \in RenderBuckets, b2 \in RenderBuckets }

\* the tactics mapping handed to the renderer; "tc" never has a bucket
RenderTactics ==
  << <<"ta", [name |-> "Tactic A", id |-> <<"TA01">>, url |-> "u/TA01"]>>,
     <<"tb", [name |-> "Tactic B", id |-> <<"TA02">>, url |-> "u/TA02"]>>,
     <<"tc", [name |-> "Tactic C", id |-> <<"TA03">>, url |-> "u/TA03"]>> >>

(* ----------------- the renderer as a specification --------------------- *)
InitRender ==
  /\ pc = "render"
  /\ matrix \in RenderMatrices
  /\ tactics = RenderTactics
  /\ platform = "Linux"
  /\ matrix_type = "enterprise"
  /\ data = NoData
  /\ passes = 0 /\ attack_data = <<>> /\ http = <<>>
  /\ platforms = <<>> /\ platform_indices = <<>> /\ idx = 0
  /\ created_files = <<>> /\ log = <<>>
  /\ ws = <<>> /\ result = None /\ save_calls = <<>>

RenderSheet(save_ok) ==
  /\ pc = "render"
  /\ \E r \in {create_excel_from_matrix(matrix, tactics, platform, matrix_type, save_ok)} :
         /\ ws' = r.ws
         /\ result' = r.result
         /\ save_calls' = IF r.save_called
                          THEN Append(save_calls, [file |-> FileName(platform, matrix_type),
                                                   ok |-> save_ok])
                          ELSE save_calls
  /\ pc' = "rendered"
  /\ UNCHANGED <<passes, attack_data, http, matrix_type, data, platforms,
                 platform_indices, idx, created_files, log, platform, matrix,
                 tactics>>

NextRender == \E save_ok \in BOOLEAN : RenderSheet(save_ok)

SpecRender == InitRender /\ [][NextRender]_vars

(* ------------- vocabulary of the renderer's properties ----------------- *)
\* the buckets that hold at least one technique-entry, in matrix order
NonEmptyBuckets == SelectSeq(matrix, LAMBDA kv : kv[2] # <<>>)

\* the rows carrying a section header, in ascending order
RECURSIVE HeaderRows(_)
HeaderRows(n) ==
  IF n = 0 THEN <<>>
  ELSE IF ws[n].fill = "tactic_fill" THEN Append(HeaderRows(n - 1), n)
       ELSE HeaderRows(n - 1)

Max(a, b) == IF a >= b THEN a ELSE b

\* data rows taken by the first j entries of a bucket
RECURSIVE RowsOf(_, _)
RowsOf(bucket, j) ==
  IF j = 0 THEN 0
  ELSE RowsOf(bucket, j - 1) + Max(1, Len(bucket[j].subtechniques))

\* entry e is laid out from row r on
EntryLaidOut(e, r) ==
  /\ r + Max(1, Len(e.subtechniques)) - 1 <= Len(ws)
  /\ ws[r].cells[1] = <<e.technique>> /\ ws[r].cells[2] = <<e.reference>>
  /\ IF e.subtechniques = <<>>
     THEN ws[r].cells[3] = <<>> /\ ws[r].cells[4] = <<>>
     ELSE \A m \in DOMAIN e.subtechniques :
            /\ ws[r + m - 1].cells[3] = <<e.subtechniques[m].name>>
            /\ ws[r + m - 1].cells[4] = <<e.subtechniques[m].reference>>
            /\ m > 1 => ws[r + m - 1].cells[1] = <<>> /\ ws[r + m - 1].cells[2] = <<>>

\* title, blank row, and per non-empty tactic a section header (rows hdr),
\* a column header and the data rows of its entries
SectionsLaidOut(hdr, filled) ==
  /\ Len(ws) >= 2 /\ ws[1] = TitleRow(platform, matrix_type) /\ ws[2] = BlankRow
  /\ Len(hdr) = Len(filled)
  /\ hdr # <<>> => hdr[1] = 3
  /\ \A k \in DOMAIN hdr :
       /\ ws[hdr[k] + 1] = ColumnHeaderRow
       /\ \A j \in DOMAIN filled[k][2] :
            EntryLaidOut(filled[k][2][j], hdr[k] + 2 + RowsOf(filled[k][2], j - 1))

\* blank rows between the last data row of section k and the next section header
GapAfter(hdr, filled, k) ==
  hdr[k + 1] - (hdr[k] + 2 + RowsOf(filled[k][2], Len(filled[k][2])))

\* the first section holds an entry without sub-techniques followed by an
\* entry with two, and another section follows
ExampleMatrix(filled) ==
  /\ Len(filled) >= 2
  /\ Len(filled[1][2]) = 2
  /\ filled[1][2][1].subtechniques = <<>>
  /\ Len(filled[1][2][2].subtechniques) = 2

\* C6: when no tactic of the matrix contributes a row, the renderer returns
\* None and wb.save is never called; a save happens only after a section
\* was written.
C6_NoContentNoSave ==
  pc = "rendered" =>
    /\ NonEmptyBuckets = <<>> => result = None /\ save_calls = <<>>
    /\ save_calls # <<>> => HeaderRows(Len(ws)) # <<>>

C6_Witness ==
  /\ pc = "rendered"
  /\ Len(matrix) = 2 /\ NonEmptyBuckets = <<>>
  /\ result = None

\* C7 as stated: the layout of the sections, and for the example matrix a
\* single blank separator row, 8 rows before the next section header.
C7_AsStated ==
  pc = "rendered" =>
    \E hdr \in {HeaderRows(Len(ws))}, filled \in {NonEmptyBuckets} :
      /\ SectionsLaidOut(hdr, filled)
      /\ ExampleMatrix(filled) => GapAfter(hdr, filled, 1) = 1 /\ hdr[2] - 1 = 8

\* C7 (amended): title in row 1, row 2 blank, then per non-empty tactic a
\* section-header row, a column-header row, max(1, #sub-techniques) data rows
\* per entry, and two blank rows before the next section header; for the
\* example matrix the next section header is in row 10, after 9 rows.
C7_Layout ==
  pc = "rendered" =>
    \E hdr \in {HeaderRows(Len(ws))}, filled \in {NonEmptyBuckets} :
      /\ SectionsLaidOut(hdr, filled)
      /\ \A k \in 1..(Len(filled) - 1) :
           /\ GapAfter(hdr, filled, k) = 2
           /\ ws[hdr[k + 1] - 1] = BlankRow
           /\ ws[hdr[k + 1] - 2] = BlankRow
      /\ ExampleMatrix(filled) => hdr[2] - 1 = 9

C7_Witness ==
  /\ pc = "rendered"
  /\ ExampleMatrix(NonEmptyBuckets)
  /\ HeaderRows(Len(ws)) = <<3, 10>>

\* C8: the document has exactly one section (section-header row followed by
\* a column-header row) per tactic of the matrix with a non-empty bucket, in
\* matrix order, and none for a tactic that is absent or has an empty bucket.
C8_SectionPerNonEmptyTactic ==
  pc = "rendered" =>
    \E hdr \in {HeaderRows(Len(ws))}, filled \in {NonEmptyBuckets} :
      /\ [k \in DOMAIN hdr |-> ws[hdr[k]].cells[1]]
           = [k \in DOMAIN filled |-> <<DictGet(tactics, filled[k][1]).name>>]
      /\ \A k \in DOMAIN hdr : ws[hdr[k] + 1] = ColumnHeaderRow
      /\ Cardinality({i \in DOMAIN ws : ws[i] = ColumnHeaderRow}) = Len(hdr)

C8_Witness ==
  /\ pc = "rendered"
  /\ Len(matrix) = 2 /\ matrix[1][2] = <<>> /\ matrix[2][2] # <<>>
  /\ Len(HeaderRows(Len(ws))) = 1
  /\ result # None

(* ------------------------- fetch_mitre_data ---------------------------- *)
\* keys of self.urls
urls == {"enterprise", "mobile", "ics"}

\* what requests.get / raise_for_status / json() can yield
FetchFailure == [ok |-> FALSE, data |-> NoData]
Fetched(d) == [ok |-> TRUE, data |-> d]

\* mutant: the cache is never consulted
CacheHit_Never(cache, mt) == FALSE

\* "if matrix_type in self.attack_data"
CacheHit(cache, mt) == DictHas(cache, mt)

\* response: the outcome of the GET, used only when a GET is issued.
\* found: the return value is not None; get: a GET was issued.
fetch_mitre_data(cache, mt, response) ==
  IF CacheHit(cache, mt)
  THEN [found |-> TRUE, data |-> DictGet(cache, mt), cache |-> cache, get |-> FALSE]
  ELSE IF mt \notin urls
  THEN [found |-> FALSE, data |-> NoData, cache |-> cache, get |-> FALSE]
  ELSE IF response.ok
  THEN [found |-> TRUE, data |-> response.data,
        cache |-> DictSet(cache, mt, response.data), get |-> TRUE]
  ELSE [found |-> FALSE, data |-> NoData, cache |-> cache, get |-> TRUE]

\* bookkeeping of requests.get: get is the matrix type the step issued a GET
\* for ("" if none), ok whether that GET succeeded, fetched the matrix types
\* a GET has succeeded for since the program started
CountGet(h, mt, f, response) ==
  [get |-> IF f.get THEN mt ELSE "",
   ok |-> f.get /\ response.ok,
   fetched |-> IF f.get /\ response.ok THEN h.fetched \cup {mt} ELSE h.fetched]

NoGet(h) == [h EXCEPT !.get = "", !.ok = FALSE]

(* ---------------------------- process_selection ------------------------ *)
\* the return value of process_selection together with what it did
process_selection(cache, mt, p, response, save_ok) ==
  Only({ IF ~f.found
         THEN [fetch |-> f, matrix |-> <<>>, tactics |-> <<>>, ws |-> <<>>,
               save_called |-> FALSE, result |-> None]
         ELSE Only({ Only({ [fetch |-> f, matrix |-> built.matrix,
                             tactics |-> built.tactics, ws |-> r.ws,
                             save_called |-> r.save_called, result |-> r.result] :
                              r \in {create_excel_from_matrix(built.matrix, built.tactics,
                                                              p, mt, save_ok)} }) :
                       built \in {build_matrix_for_platform(f.data, p)} }) :
           f \in {fetch_mitre_data(cache, mt, response)} })

\* mutant: the returned value is appended whatever it is
CreatedAfter_Always(files, file_path) == Append(files, file_path)

\* "if file_path: created_files.append(file_path)"
CreatedAfter(files, file_path) ==
  IF file_path # None THEN Append(files, file_path) ELSE files

(* ------------------------ datasets the server returns ------------------ *)
\* both platforms yield a document
DataBoth ==
  [objects |-> <<TA, TB,
                 AP(idA, "A1", "u/A1", Both, <<"ta", "tb">>),
                 AP(idAx, "AX1", "u/AX1", Lin, <<"ta">>),
                 AP(idAy, "AY2", "u/AY2", Win, <<"ta">>)>>]

\* "Windows" is a platform of the dataset but of no top-level technique
DataLinuxOnly ==
  [objects |-> <<TB, OtherObj, TA,
                 AP(idB, "B1", "u/B1", Lin, <<"tb", "tu", "ta">>),
                 AP(idCx, "CX1", "u/CX1", Both, <<"ta">>)>>]

\* no attack-pattern carries a platform
DataNoPlatforms == [objects |-> <<TA, AP(idA, "A2", "u/A2", {}, <<"ta">>)>>]

Responses == {FetchFailure, Fetched(DataBoth), Fetched(DataLinuxOnly), Fetched(DataNoPlatforms)}

(* ------------------------------ display_menu --------------------------- *)
\* answers of the multi-select menu: 'q', 'all', or valid comma-separated numbers
MultiSelections(n) ==
  {<<>>} \cup {[i \in 1..n |-> i - 1]} \cup (SeqsUpTo(0..(n - 1), MaxSel) \ {<<>>})

(* --------------------------- main, interactive_menu -------------------- *)
Init ==
  /\ pc = "main"
  /\ passes = 0
  /\ attack_data = <<>>
  /\ http = [get |-> "", ok |-> FALSE, fetched |-> {}]
  /\ matrix_type = ""
  /\ data = NoData
  /\ platforms = <<>> /\ platform_indices = <<>> /\ idx = 0
  /\ created_files = <<>> /\ log = <<>>
  /\ platform = ""
  /\ matrix = <<>> /\ tactics = <<>> /\ ws = <<>>
  /\ result = None /\ save_calls = <<>>

\* the locals of interactive_menu and of the calls below it do not exist
\* outside a call
NoLocals ==
  /\ matrix_type' = "" /\ data' = NoData
  /\ platforms' = <<>> /\ platform_indices' = <<>> /\ idx' = 0
  /\ created_files' = <<>> /\ log' = <<>>
  /\ platform' = "" /\ matrix' = <<>> /\ tactics' = <<>> /\ ws' = <<>>
  /\ result' = None /\ save_calls' = <<>>

\* main: choice '1'; interactive_menu constructs a new fetcher
StartInteractive ==
  /\ pc = "main"
  /\ passes < MaxPasses
  /\ passes' = passes + 1
  /\ attack_data' = <<>>
  /\ pc' = "menu_type"
  /\ http' = NoGet(http)
  /\ NoLocals

\* main: choice '2'
ExitProgram ==
  /\ pc = "main"
  /\ pc' = "exit"
  /\ http' = NoGet(http)
  /\ UNCHANGED <<passes, attack_data, matrix_type, data, platforms,
                 platform_indices, idx, created_files, log, platform, matrix,
                 tactics, ws, result, save_calls>>

\* interactive_menu: 'q' in the matrix-type menu
QuitTypeMenu ==
  /\ pc = "menu_type"
  /\ pc' = "main"
  /\ http' = NoGet(http)
  /\ UNCHANGED <<passes, attack_data, matrix_type, data, platforms,
                 platform_indices, idx, created_files, log, platform, matrix,
                 tactics, ws, result, save_calls>>

\* interactive_menu: a matrix type is chosen, its data fetched and its
\* platforms extracted; returns when the fetch fails or no platform is found
ChooseMatrixType(selected, response) ==
  /\ pc = "menu_type"
  /\ \E mt \in {Lower(MatrixTypes[selected + 1])} :
     \E f \in {fetch_mitre_data(attack_data, mt, response)} :
     \E found \in {IF f.found THEN extract_platforms(f.data) ELSE <<>>} :
         /\ attack_data' = f.cache
         /\ http' = CountGet(http, mt, f, response)
         /\ IF found # <<>>
            THEN /\ matrix_type' = mt
                 /\ data' = f.data
                 /\ platforms' = found
                 /\ pc' = "menu_platforms"
                 /\ UNCHANGED <<platform_indices, idx, created_files, log,
                                platform, matrix, tactics, ws, result, save_calls>>
            ELSE pc' = "main" /\ NoLocals
  /\ UNCHANGED passes

\* interactive_menu: the answer to the platform menu; returns on an empty one
SelectPlatforms(selection) ==
  /\ pc = "menu_platforms"
  /\ http' = NoGet(http)
  /\ IF selection # <<>>
     THEN /\ platform_indices' = selection
          /\ created_files' = <<>>
          /\ idx' = 1
          /\ pc' = "loop"
          /\ UNCHANGED <<matrix_type, data, platforms, log, platform, matrix,
                         tactics, ws, result, save_calls>>
     ELSE pc' = "main" /\ NoLocals
  /\ UNCHANGED <<passes, attack_data>>

\* interactive_menu: one iteration of "for idx in platform_indices"
ProcessSelection(response, save_ok) ==
  /\ pc = "loop"
  /\ idx <= Len(platform_indices)
  /\ \E p \in {platforms[platform_indices[idx] + 1]} :
     \E r \in {process_selection(attack_data, matrix_type, p, response, save_ok)} :
         /\ platform' = p
         /\ attack_data' = r.fetch.cache
         /\ http' = CountGet(http, matrix_type, r.fetch, response)
         /\ matrix' = r.matrix /\ tactics' = r.tactics /\ ws' = r.ws
         /\ result' = r.result
         /\ save_calls' = IF r.save_called
                          THEN Append(save_calls, [file |-> FileName(p, matrix_type),
                                                   ok |-> save_ok])
                          ELSE save_calls
         /\ log' = Append(log, [platform |-> p, built |-> r.save_called,
                                saved |-> r.save_called /\ save_ok])
         /\ IF r.result = <<"KeyError">>
            THEN pc' = "exit" /\ UNCHANGED <<created_files, idx>>
            ELSE /\ created_files' = CreatedAfter(created_files, r.result)
                 /\ idx' = idx + 1
                 /\ pc' = "loop"
  /\ UNCHANGED <<passes, matrix_type, data, platforms, platform_indices>>

\* interactive_menu: the loop is over, the results are printed
ShowResults ==
  /\ pc = "loop"
  /\ idx > Len(platform_indices)
  /\ pc' = "results"
  /\ http' = NoGet(http)
  /\ UNCHANGED <<passes, attack_data, matrix_type, data, platforms,
                 platform_indices, idx, created_files, log, platform, matrix,
                 tactics, ws, result, save_calls>>

\* interactive_menu: Enter is pressed and control returns to main
PressEnter ==
  /\ pc = "results"
  /\ pc' = "main"
  /\ http' = NoGet(http)
  /\ NoLocals
  /\ UNCHANGED <<passes, attack_data>>

Next ==
  \/ StartInteractive
  \/ ExitProgram
  \/ QuitTypeMenu
  \/ \E selected \in 0..(Len(MatrixTypes) - 1), response \in Responses :
       ChooseMatrixType(selected, response)
  \/ \E selection \in MultiSelections(Len(platforms)) : SelectPlatforms(selection)
  \/ \E response \in Responses, save_ok \in BOOLEAN : ProcessSelection(response, save_ok)
  \/ ShowResults
  \/ PressEnter

Spec == Init /\ [][Next]_vars

(* -------------------- properties of the interactive driver ------------- *)
\* C4 as stated: once a dataset for a matrix type has been fetched in this
\* run of the program, no later step issues another GET for that type.
C4_AsStated ==
  [][\A mt \in urls : mt \in http.fetched => http'.get # mt]_vars

\* C4 (amended): a successful GET puts the dataset in the fetcher's cache;
\* while the cache holds a matrix type no step issues a GET for it; and an
\* entry leaves the cache only when interactive_menu starts anew with a new
\* fetcher.
C4_CachePerFetcher ==
  [][\A mt \in urls :
       /\ http'.get = mt /\ http'.ok => DictHas(attack_data', mt)
       /\ DictHas(attack_data, mt) => http'.get # mt
       /\ DictHas(attack_data, mt) /\ ~DictHas(attack_data', mt)
            => pc = "main" /\ pc' = "menu_type"]_vars

\* second pass over a matrix type fetched in the first one: the GET of this
\* pass has filled the cache and two platforms were processed from it
C4_Witness ==
  /\ passes = 2 /\ pc = "results" /\ Len(log) >= 2
  /\ DictHas(attack_data, matrix_type)
  /\ http.fetched = {matrix_type}
  /\ http.get = ""

\* the log entries of the platforms whose document was saved
Saved == SelectSeq(log, LAMBDA l : l.saved)

\* C5: a platform without techniques or whose file cannot be written stops
\* only its own processing: the platforms are processed in selection order,
\* the results are reached only after the last one, and created_files holds
\* exactly the file paths of the platforms built and saved.
C5_LoopContinues ==
  /\ pc = "loop" => Len(log) = idx - 1 /\ idx <= Len(platform_indices) + 1
  /\ pc = "results" => Len(log) = Len(platform_indices)
  /\ pc \in {"loop", "results"} =>
       /\ \A i \in DOMAIN log :
            /\ log[i].platform = platforms[platform_indices[i] + 1]
            /\ log[i].built <=>
                 build_matrix_for_platform(data, log[i].platform).matrix # <<>>
       /\ created_files = [i \in DOMAIN Saved |-> FileName(Saved[i].platform, matrix_type)]
       /\ Len(save_calls) = Cardinality({i \in DOMAIN log : log[i].built})

C5_Witness ==
  /\ pc = "results" /\ Len(log) = 3
  /\ ~log[1].built
  /\ log[2].built /\ ~log[2].saved
  /\ log[3].saved
  /\ Len(created_files) = 1

====
